---------------------------- MODULE Spec2Model ----------------------------
(***************************************************************************)
(* mr-bridge: an MQTT bridge between a "near" and a "far" broker.          *)
(*                                                                         *)
(* The module models src/src/main.rs (Bridge, matches_topic) and           *)
(* src/src/lib.rs (BridgeRule, Direction, BridgeConfig).  Strings are      *)
(* sequences of one-character strings, so that split('/') is computed and  *)
(* not assumed.  The single task of Bridge::run is a program counter `pc`; *)
(* every client call (subscribe, unsubscribe, publish) is one step, whose  *)
(* Result is chosen by the environment.                                    *)
(***************************************************************************)
EXTENDS Naturals, Sequences, FiniteSets

VARIABLES
    reload_topic,   \* Bridge.reload_topic : Option<String>
    reload_broker,  \* Bridge.reload_broker : String
    config,         \* the value behind Bridge.config : the rules of the active BridgeConfig
    subs,           \* per side, the subscriptions requested from that client
    readers,        \* read guards of Bridge.config currently held
    writer,         \* whether the write guard of Bridge.config is held
    pc,             \* position of the task in Bridge::run and its callees
    running,        \* "Bridge is running" has been passed (the loop was entered)
    i,              \* index of the rule a for-loop is at; the rules before it are done
    half,           \* inside a Wherever arm: 0 before the near call, 1 before the far call
    msg,            \* the Publish being handled
    origin,         \* the side whose event loop produced the current event
    triggered,      \* the current publish was taken as a reload message
    new_config,     \* reload_config's local new_config
    pre,            \* config and subs as they were when the current event was polled
    sent,           \* publish calls made for the current message, in order
    requests,       \* subscribe/unsubscribe calls made by the current handler (or startup)
    result,         \* Result of the current handler (or of startup's subscribe_to_topics)
    fails,          \* client calls that returned Err in the current handler (or startup)
    queued,         \* per side, the requests handed to the client and not yet taken by its event loop
    hops,           \* how often the Publish being handled has crossed the bridge before
    echo,           \* a forward the broker of the destination hands back to the bridge
    m_pat,          \* matches_topic's argument `subscription` (matcher specification)
    m_topic,        \* matches_topic's argument `topic` (matcher specification)
    m_res           \* matches_topic's return value (matcher specification)

vars == << reload_topic, reload_broker, config, subs, readers, writer, pc,
           running, i, half, msg, origin, triggered, new_config, pre, sent,
           requests, result, fails, queued, hops, echo, m_pat, m_topic, m_res >>

bridgeVars_but_echo ==
    << reload_topic, reload_broker, config, subs, readers, writer, pc, running, i, half,
       msg, origin, triggered, new_config, pre, sent, requests, result, fails, queued,
       hops >>

bridgeVars == << reload_topic, reload_broker, config, subs, readers, writer, pc,
                 running, i, half, msg, origin, triggered, new_config, pre, sent,
                 requests, result, fails, queued, hops, echo >>

matchVars == << m_pat, m_topic, m_res >>

---------------------------------------------------------------------------
(* Bounds of the model *)

\* longest pattern or topic string given to matches_topic in SpecMatch
MaxLen == 3
\* most rules in a configuration
MaxRules == 2
\* largest value of the u8 field BridgeRule.qos in a configuration (3 is out of range)
MaxQosRaw == 3
\* largest BridgeRule.qos in the configurations of the reload specification
MaxReloadQosRaw == 0
\* most client calls that return Err within one handler (or within startup)
MaxFailures == 1
\* most requests still queued in the two clients when a broker's publish is polled
MaxBacklog == 0
\* most crossings of the bridge followed for one message
MaxHops == 2
\* most rules of a configuration in the startup specification
MaxStartupRules == 101

\* AsyncClient::new(mqttoptions, 100): capacity of a client's request channel
RequestCap == 100
\* number of distinct payloads of inbound publishes
MaxPayload == 2

---------------------------------------------------------------------------
(* Strings and Option *)

None == << >>
Some(x) == << x >>

Min(a, b) == IF a <= b THEN a ELSE b

\* characters of the strings matches_topic is tried on
Chars == {"a", "b", "/", "+", "#"}

StringsUpTo(n) == UNION { [1..k -> Chars] : k \in 0..n }

\* str::split('/') : the segments between the separators; never empty
RECURSIVE Split(_)
Split(s) ==
    IF \A k \in 1..Len(s) : s[k] # "/"
    THEN << s >>
    ELSE LET k == CHOOSE k \in 1..Len(s) :
                      s[k] = "/" /\ \A j \in 1..(k-1) : s[j] # "/"
         IN  << SubSeq(s, 1, k-1) >> \o Split(SubSeq(s, k+1, Len(s)))

\* iter().zip(..).all(|(s, t)| *s == "+" || *s == *t) : zip stops at the shorter
ZipAll(s_parts, t_parts) ==
    \A k \in 1..Min(Len(s_parts), Len(t_parts)) :
        s_parts[k] = << "+" >> \/ s_parts[k] = t_parts[k]

\* matches_topic with the length test of the '#' branch left out
matches_topic_nolen(subscription, topic) ==
    LET sub_parts == Split(subscription)
        topic_parts == Split(topic)
    IN  IF sub_parts[Len(sub_parts)] = << "#" >>
        THEN ZipAll(SubSeq(sub_parts, 1, Len(sub_parts) - 1), topic_parts)
        ELSE /\ Len(sub_parts) = Len(topic_parts)
             /\ ZipAll(sub_parts, topic_parts)

matches_topic(subscription, topic) ==
    LET sub_parts == Split(subscription)
        topic_parts == Split(topic)
    IN  IF sub_parts[Len(sub_parts)] = << "#" >>
        THEN LET sub_prefix == SubSeq(sub_parts, 1, Len(sub_parts) - 1)
             IN  /\ Len(topic_parts) >= Len(sub_prefix)
                 /\ ZipAll(sub_prefix, topic_parts)
        ELSE /\ Len(sub_parts) = Len(topic_parts)
             /\ ZipAll(sub_parts, topic_parts)

---------------------------------------------------------------------------
(* Data model: src/src/lib.rs *)

Sides == {"near", "far"}

\* enum Direction
Directions == {"NearToFar", "FarToNear", "Wherever"}

\* rumqttc::QoS
QoSLevels == {"AtMostOnce", "AtLeastOnce", "ExactlyOnce"}

\* BridgeRule::qos
rule_qos(rule) ==
    CASE rule.qos = 0 -> "AtMostOnce"
      [] rule.qos = 1 -> "AtLeastOnce"
      [] rule.qos = 2 -> "ExactlyOnce"
      [] OTHER -> "AtMostOnce"

\* topics and patterns of the bridge specifications
T_a == << "a" >>
T_r == << "r" >>
P_plus == << "+" >>

\* BridgeRule.topic in the configurations tried
RulePatterns == {P_plus, T_r}
\* topics of inbound publishes (a broker delivers no topic with a wildcard in it)
InboundTopics == {T_a, T_r}
\* Args.reload_topic
ReloadTopics == {None, Some(T_r), Some(P_plus)}
\* Args.reload_broker: any string; "other" stands for every value but near and far
ReloadBrokers == {"near", "far", "other"}

\* struct BridgeRule (the logging flag only selects log output and is left out)
RulesUpTo(q) == [topic : RulePatterns, direction : Directions, qos : 0..q]

\* BridgeConfig.rules (near and far endpoints are fixed once the clients exist)
ConfigsOver(rules) == UNION { [1..k -> rules] : k \in 0..MaxRules }

\* Result<BridgeConfig> of BridgeConfig::load_from_file
LoadErr == << >>
LoadOk(c) == << c >>

\* rumqttc::Publish
Messages ==
    [topic : InboundTopics, payload : 1..MaxPayload, retain : BOOLEAN, qos : QoSLevels]

\* the publishes of the reload specification: one body per topic
PlainMessages ==
    { m \in Messages : m.payload = 1 /\ ~m.retain /\ m.qos = "AtMostOnce" }

---------------------------------------------------------------------------
(* The external MQTT client and broker *)

\* a subscription request for a filter that is already subscribed replaces it
Subscribed(set, topic, q) == { e \in set : e[1] # topic } \cup { << topic, q >> }

\* an unsubscribe the broker does not act on
Unsubscribed_kept(set, topic) == set

Unsubscribed(set, topic) == { e \in set : e[1] # topic }

\* the broker hands a publish to the bridge when a subscription of that side matches
Delivered(side, topic) == \E e \in subs[side] : matches_topic(e[1], topic)

\* the environment may let a client call fail while the failure budget lasts
Outcomes == IF fails < MaxFailures THEN {TRUE, FALSE} ELSE {TRUE}

Failed(ok) == IF ok THEN fails ELSE fails + 1

\* a request channel with room left: send_async completes; on a full channel the call
\* stays pending until the event loop of that client is polled
CanSend(side) == queued[side] < RequestCap

\* the client call `ok` returned: Ok after its request was put on the channel of
\* `side`, Err with nothing put there
Requested(side, ok) ==
    IF ok
    THEN CanSend(side) /\ queued' = [queued EXCEPT ![side] = @ + 1]
    ELSE queued' = queued

\* the order of rumqttc::QoS, for the QoS a broker delivers with
QoSRank(q) == CASE q = "AtMostOnce" -> 0 [] q = "AtLeastOnce" -> 1 [] q = "ExactlyOnce" -> 2

QoSMin(a, b) == IF QoSRank(a) <= QoSRank(b) THEN a ELSE b

\* the requests of both clients have gone out, up to MaxBacklog of them
Drained == queued["near"] + queued["far"] <= MaxBacklog

---------------------------------------------------------------------------
(* tokio::sync::RwLock around the configuration *)

CanRead == ~writer
CanWrite == ~writer /\ readers = 0
\* the guard reload_config holds while it unsubscribes, taken as a write guard
old_config_guard_write == "write"

\* the guard reload_config holds while it unsubscribes: self.config.read()
old_config_guard == "read"

CanHold(mode) == IF mode = "read" THEN CanRead ELSE CanWrite
ReadersWith(mode) == IF mode = "read" THEN readers + 1 ELSE readers
WriterWith(mode) == IF mode = "write" THEN TRUE ELSE writer
\* drop(old_config) left out: the guard of the unsubscribe phase stays held
ReadersWithout_kept(mode) == readers

ReadersWithout(mode) == IF mode = "read" THEN readers - 1 ELSE readers
WriterWithout(mode) == IF mode = "write" THEN FALSE ELSE writer

---------------------------------------------------------------------------
(* Bridge::subscribe_to_topics *)

\* the match on rule.direction: the clients subscribed for a rule, in call order
subscribe_sides(direction) ==
    CASE direction = "NearToFar" -> << "near" >>
      [] direction = "FarToNear" -> << "far" >>
      [] direction = "Wherever"  -> << "near", "far" >>

\* where an Err of subscribe_to_topics leads, were run to go on in spite of it
after_subscribe_err_ignored == IF running THEN "handled" ELSE "started"

\* where an Err of subscribe_to_topics leads: `?` in run returns it from run and main
\* (the process ends); `?` in reload_config returns it to the handler and the loop
after_subscribe_err == IF running THEN "handled" ELSE "exited"

\* a failed subscribe whose error is dropped: the caller is told Ok
SubscribeErr_swallowed ==
    /\ readers' = readers - 1
    /\ result' = "Ok"
    /\ pc' = after_subscribe_err

\* the `?` after a failed subscribe: the read guard is dropped, Err goes to the caller
SubscribeErr ==
    /\ readers' = readers - 1
    /\ result' = "Err"
    /\ pc' = after_subscribe_err

\* the reload topic subscribed by the startup call only
subscribes_reload_topic_at_startup == reload_topic # None /\ ~running

\* if let Some(reload_topic) = &self.reload_topic
subscribes_reload_topic == reload_topic # None

\* Ok(()) : back in run ("Bridge is running") or in reload_config
SubscribeOk ==
    /\ readers' = readers - 1
    /\ result' = "Ok"
    /\ pc' = IF running THEN "handled" ELSE "started"

\* the first statement of run: subscribe_to_topics takes its read guard
RunStart ==
    /\ pc = "start"
    /\ CanRead
    /\ readers' = readers + 1
    /\ pc' = "subscribe"
    /\ i' = 1
    /\ half' = 0
    /\ UNCHANGED << reload_topic, reload_broker, config, subs, writer, running, msg,
                    origin, triggered, new_config, pre, sent, requests, result, fails >>
    /\ UNCHANGED << queued, hops, echo >>
    /\ UNCHANGED matchVars

\* one subscribe call of the loop over config.rules
SubscribeRule ==
    /\ pc = "subscribe"
    /\ i <= Len(config)
    /\ LET rule == config[i]
           sides == subscribe_sides(rule.direction)
           side == sides[half + 1]
       IN  \E ok \in Outcomes :
             /\ requests' = Append(requests,
                                   << "subscribe", side, rule.topic, rule_qos(rule), ok >>)
             /\ fails' = Failed(ok)
             /\ Requested(side, ok)
             /\ IF ok
                THEN /\ subs' = [subs EXCEPT
                                   ![side] = Subscribed(@, rule.topic, rule_qos(rule))]
                     /\ IF half + 1 < Len(sides)
                        THEN half' = half + 1 /\ i' = i
                        ELSE half' = 0 /\ i' = i + 1
                     /\ UNCHANGED << pc, result, readers >>
                ELSE /\ SubscribeErr
                     /\ UNCHANGED << subs, i, half >>
    /\ UNCHANGED << reload_topic, reload_broker, config, writer, running, msg, origin,
                    triggered, new_config, pre, sent >>
    /\ UNCHANGED << hops, echo >>
    /\ UNCHANGED matchVars

\* the reload topic is subscribed last, with QoS::AtLeastOnce
SubscribeReloadTopic ==
    /\ pc = "subscribe"
    /\ i = Len(config) + 1
    /\ subscribes_reload_topic
    /\ reload_broker \in Sides
    /\ \E ok \in Outcomes :
         /\ requests' = Append(requests,
                << "subscribe", reload_broker, reload_topic[1], "AtLeastOnce", ok >>)
         /\ fails' = Failed(ok)
         /\ Requested(reload_broker, ok)
         /\ IF ok
            THEN /\ subs' = [subs EXCEPT
                       ![reload_broker] = Subscribed(@, reload_topic[1], "AtLeastOnce")]
                 /\ SubscribeOk
            ELSE /\ SubscribeErr
                 /\ UNCHANGED subs
    /\ UNCHANGED << reload_topic, reload_broker, config, writer, running, i, half, msg,
                    origin, triggered, new_config, pre, sent >>
    /\ UNCHANGED << hops, echo >>
    /\ UNCHANGED matchVars

\* no reload topic, or a reload_broker that is neither near nor far (warn!)
SubscribeNoReloadTopic ==
    /\ pc = "subscribe"
    /\ i = Len(config) + 1
    /\ ~subscribes_reload_topic \/ reload_broker \notin Sides
    /\ SubscribeOk
    /\ UNCHANGED << reload_topic, reload_broker, config, subs, writer, running, i, half,
                    msg, origin, triggered, new_config, pre, sent, requests, fails >>
    /\ UNCHANGED << queued, hops, echo >>
    /\ UNCHANGED matchVars

---------------------------------------------------------------------------
(* Bridge::reload_config *)

\* the match on rule.direction of the unsubscribe loop, in call order
unsubscribe_sides(direction) ==
    CASE direction = "NearToFar" -> << "near" >>
      [] direction = "FarToNear" -> << "far" >>
      [] direction = "Wherever"  -> << "near", "far" >>

\* a failed load counted as an empty configuration
loaded_or_empty(f) == LoadOk(IF f = LoadErr THEN << >> ELSE f[1])

\* BridgeConfig::load_from_file(&self.config_path), f being what the file holds now
loaded(f) == f

\* load the file; on Err return at once (`?`), else take the guard on the old rules
ReloadLoad(f) ==
    /\ pc = "reload"
    /\ IF loaded(f) = LoadErr
       THEN /\ result' = "Err"
            /\ pc' = "handled"
            /\ UNCHANGED << new_config, readers, writer, i, half >>
       ELSE /\ new_config' = Some(loaded(f)[1])
            /\ CanHold(old_config_guard)
            /\ readers' = ReadersWith(old_config_guard)
            /\ writer' = WriterWith(old_config_guard)
            /\ pc' = "unsubscribe"
            /\ i' = 1
            /\ half' = 0
            /\ UNCHANGED result
    /\ UNCHANGED << reload_topic, reload_broker, config, subs, running, msg, origin,
                    triggered, pre, sent, requests, fails >>
    /\ UNCHANGED << queued, hops, echo >>
    /\ UNCHANGED matchVars

\* an unsubscribe call whose Err is returned with `?`: the reload stops there
Unsubscribe_aborting(ok) ==
    /\ pc = "unsubscribe"
    /\ i <= Len(config)
    /\ LET rule == config[i]
           sides == unsubscribe_sides(rule.direction)
           side == sides[half + 1]
       IN  /\ requests' = Append(requests,
                                 << "unsubscribe", side, rule.topic, "none", ok >>)
           /\ fails' = Failed(ok)
           /\ Requested(side, ok)
           /\ IF ok
              THEN /\ subs' = [subs EXCEPT ![side] = Unsubscribed(@, rule.topic)]
                   /\ IF half + 1 < Len(sides)
                      THEN half' = half + 1 /\ i' = i
                      ELSE half' = 0 /\ i' = i + 1
                   /\ UNCHANGED << pc, result, readers, writer >>
              ELSE /\ readers' = ReadersWithout(old_config_guard)
                   /\ writer' = WriterWithout(old_config_guard)
                   /\ result' = "Err"
                   /\ pc' = "handled"
                   /\ UNCHANGED << subs, i, half >>
    /\ UNCHANGED << reload_topic, reload_broker, config, running, msg, origin,
                    triggered, new_config, pre, sent >>
    /\ UNCHANGED << hops, echo >>
    /\ UNCHANGED matchVars

\* one unsubscribe call of the loop over old_config.rules, returning Ok or Err as
\* `ok` says; its Result is dropped (let _ =) and the loop goes on
Unsubscribe(ok) ==
    /\ pc = "unsubscribe"
    /\ i <= Len(config)
    /\ LET rule == config[i]
           sides == unsubscribe_sides(rule.direction)
           side == sides[half + 1]
       IN  /\ requests' = Append(requests,
                                 << "unsubscribe", side, rule.topic, "none", ok >>)
           /\ fails' = Failed(ok)
           /\ Requested(side, ok)
           /\ subs' = IF ok
                      THEN [subs EXCEPT ![side] = Unsubscribed(@, rule.topic)]
                      ELSE subs
           /\ IF half + 1 < Len(sides)
              THEN half' = half + 1 /\ i' = i
              ELSE half' = 0 /\ i' = i + 1
    /\ UNCHANGED << reload_topic, reload_broker, config, readers, writer, pc, running,
                    msg, origin, triggered, new_config, pre, sent, result >>
    /\ UNCHANGED << hops, echo >>
    /\ UNCHANGED matchVars

\* drop(old_config)
UnsubscribeDone ==
    /\ pc = "unsubscribe"
    /\ i = Len(config) + 1
    /\ readers' = ReadersWithout(old_config_guard)
    /\ writer' = WriterWithout(old_config_guard)
    /\ pc' = "swap"
    /\ UNCHANGED << reload_topic, reload_broker, config, subs, running, i, half, msg,
                    origin, triggered, new_config, pre, sent, requests, result, fails >>
    /\ UNCHANGED << queued, hops, echo >>
    /\ UNCHANGED matchVars

\* *self.config.write().await = new_config : the write guard is granted and the
\* whole value is assigned
Swap ==
    /\ pc = "swap"
    /\ CanWrite
    /\ writer' = TRUE
    /\ config' = new_config[1]
    /\ pc' = "swapped"
    /\ UNCHANGED << reload_topic, reload_broker, subs, readers, running, i, half, msg,
                    origin, triggered, new_config, pre, sent, requests, result, fails >>
    /\ UNCHANGED << queued, hops, echo >>
    /\ UNCHANGED matchVars

\* the statement ends, its temporary write guard is dropped; then
\* self.subscribe_to_topics() takes its read guard
ReloadSubscribe ==
    /\ pc = "swapped"
    /\ writer' = FALSE
    /\ readers' = readers + 1
    /\ pc' = "subscribe"
    /\ i' = 1
    /\ half' = 0
    /\ UNCHANGED << reload_topic, reload_broker, config, subs, running, msg, origin,
                    triggered, new_config, pre, sent, requests, result, fails >>
    /\ UNCHANGED << queued, hops, echo >>
    /\ UNCHANGED matchVars

---------------------------------------------------------------------------
(* Bridge::handle_near_publish and Bridge::handle_far_publish *)

\* the reload check with the topic compared by matches_topic
is_reload_message_wild(side, topic) ==
    /\ reload_topic # None
    /\ reload_broker = side
    /\ matches_topic(reload_topic[1], topic)

\* the reload check of the handler of `side`:
\* self.reload_broker == "near" && publish.topic == *reload_topic  (resp. "far")
is_reload_message(side, topic) ==
    /\ reload_topic # None
    /\ reload_broker = side
    /\ topic = reload_topic[1]

\* the match on rule.direction with the FarToNear arm of the near handler forwarding
forwards_always_near(side, direction) ==
    CASE side = "near" -> direction \in {"NearToFar", "Wherever", "FarToNear"}
      [] side = "far"  -> direction \in {"FarToNear", "Wherever"}

\* the match on rule.direction: the arms of the handler of `side` that publish
forwards(side, direction) ==
    CASE side = "near" -> direction \in {"NearToFar", "Wherever"}
      [] side = "far"  -> direction \in {"FarToNear", "Wherever"}

\* the client a handler publishes with: far_client in the near handler, and back
destination(side) ==
    CASE side = "near" -> "far"
      [] side = "far"  -> "near"

\* the publish call with publish.qos passed on in place of rule.qos()
forwarded_msg_qos(rule, m) ==
    [topic |-> m.topic, qos |-> m.qos, retain |-> m.retain, payload |-> m.payload]

\* the arguments of the publish call: &publish.topic, rule.qos(), publish.retain,
\* publish.payload.clone()
forwarded(rule, m) ==
    [topic |-> m.topic, qos |-> rule_qos(rule), retain |-> m.retain,
     payload |-> m.payload]

\* a publish that returned Ok, were the handler to stop at the first forward
after_publish_return(k) == Len(config) + 1

\* a publish that returned Ok: the for loop goes on with the next rule
after_publish(k) == k + 1

\* the handler run as a task of its own: a publish is taken while another is routed
HandlePublish_spawned(side, m, h) ==
    /\ pc \in {"loop", "route"}
    /\ Drained
    /\ Delivered(side, m.topic)
    /\ CanRead
    /\ msg' = Some(m)
    /\ hops' = h
    /\ origin' = side
    /\ pre' = Some([config |-> config, subs |-> subs])
    /\ IF is_reload_message(side, m.topic)
       THEN /\ triggered' = TRUE
            /\ pc' = "reload"
            /\ readers' = readers
       ELSE /\ triggered' = FALSE
            /\ pc' = "route"
            /\ readers' = readers + 1
    /\ i' = 1
    /\ half' = 0
    /\ UNCHANGED << reload_topic, reload_broker, config, subs, writer, running,
                    new_config, sent, requests, result, fails, queued >>
    /\ UNCHANGED matchVars

\* the handler of `side` is called with the publish m, which crossed the bridge h
\* times before: it takes its read guard and checks for the reload message (the
\* guard is dropped before reloading)
HandlePublish(side, m, h) ==
    /\ pc = "loop"
    /\ Drained
    /\ Delivered(side, m.topic)
    /\ CanRead
    /\ msg' = Some(m)
    /\ hops' = h
    /\ origin' = side
    /\ pre' = Some([config |-> config, subs |-> subs])
    /\ IF is_reload_message(side, m.topic)
       THEN /\ triggered' = TRUE
            /\ pc' = "reload"
            /\ readers' = readers
       ELSE /\ triggered' = FALSE
            /\ pc' = "route"
            /\ readers' = readers + 1
    /\ i' = 1
    /\ half' = 0
    /\ UNCHANGED << reload_topic, reload_broker, config, subs, writer, running,
                    new_config, sent, requests, result, fails, queued >>
    /\ UNCHANGED matchVars

\* poll() of the event loop of `side` yields Incoming(Publish(m)), a publish of some
\* other client of that broker
PollPublish(side, m) ==
    /\ HandlePublish(side, m, 0)
    /\ echo' = echo

\* the broker of the destination takes a forward of the current message, made with
\* Ok, for the subscription the bridge itself holds there: it will hand it back
\* (retain cleared, QoS the lower of the publish's and the subscription's)
Echo(n) ==
    /\ pc = "handled"
    /\ echo = None
    /\ hops < MaxHops
    /\ n \in 1..Len(sent)
    /\ sent[n].ok
    /\ \E e \in subs[sent[n].side] :
         /\ matches_topic(e[1], sent[n].call.topic)
         /\ echo' = Some([side |-> sent[n].side,
                          m |-> [topic |-> sent[n].call.topic,
                                 payload |-> sent[n].call.payload,
                                 retain |-> FALSE,
                                 qos |-> QoSMin(sent[n].call.qos, e[2])],
                          hops |-> hops + 1])
    /\ UNCHANGED bridgeVars_but_echo
    /\ UNCHANGED matchVars

\* poll() yields the publish the broker hands back to the bridge
PollEcho ==
    /\ echo # None
    /\ HandlePublish(echo[1].side, echo[1].m, echo[1].hops)
    /\ echo' = None

\* a matching rule whose arm publishes: one publish call; on Err the handler returns
RouteForward ==
    /\ pc = "route"
    /\ i <= Len(config)
    /\ matches_topic(config[i].topic, msg[1].topic)
    /\ forwards(origin, config[i].direction)
    /\ \E ok \in Outcomes :
         /\ sent' = Append(sent, [rule |-> i, side |-> destination(origin),
                                  call |-> forwarded(config[i], msg[1]), ok |-> ok])
         /\ fails' = Failed(ok)
         /\ Requested(destination(origin), ok)
         /\ IF ok
            THEN /\ i' = after_publish(i)
                 /\ UNCHANGED << pc, result, readers >>
            ELSE /\ i' = i + 1
                 /\ pc' = "handled"
                 /\ result' = "Err"
                 /\ readers' = readers - 1
    /\ UNCHANGED << reload_topic, reload_broker, config, subs, writer, running, half,
                    msg, origin, triggered, new_config, pre, requests >>
    /\ UNCHANGED << hops, echo >>
    /\ UNCHANGED matchVars

\* a rule that does not match, or whose arm only logs "Ignoring message"
RouteSkip ==
    /\ pc = "route"
    /\ i <= Len(config)
    /\ ~ ( /\ matches_topic(config[i].topic, msg[1].topic)
           /\ forwards(origin, config[i].direction) )
    /\ i' = i + 1
    /\ UNCHANGED << reload_topic, reload_broker, config, subs, readers, writer, pc,
                    running, half, msg, origin, triggered, new_config, pre, sent,
                    requests, result, fails >>
    /\ UNCHANGED << queued, hops, echo >>
    /\ UNCHANGED matchVars

\* the loop is over: Ok(()), the read guard is dropped
RouteDone ==
    /\ pc = "route"
    /\ i = Len(config) + 1
    /\ pc' = "handled"
    /\ result' = "Ok"
    /\ readers' = readers - 1
    /\ UNCHANGED << reload_topic, reload_broker, config, subs, writer, running, i, half,
                    msg, origin, triggered, new_config, pre, sent, requests, fails >>
    /\ UNCHANGED << queued, hops, echo >>
    /\ UNCHANGED matchVars

---------------------------------------------------------------------------
(* Bridge::run *)

\* subscribe_to_topics returned Ok: "Bridge is running", the loop is entered
EnterLoop ==
    /\ pc = "started"
    /\ pc' = "loop"
    /\ running' = TRUE
    /\ requests' = << >>
    /\ result' = "none"
    /\ fails' = 0
    /\ i' = 0
    /\ UNCHANGED << reload_topic, reload_broker, config, subs, readers, writer, half,
                    msg, origin, triggered, new_config, pre, sent >>
    /\ UNCHANGED << queued, hops, echo >>
    /\ UNCHANGED matchVars

\* a handler's Err passed on with `?`: run returns it and the process ends
Return_exits_on_err ==
    /\ pc = "handled"
    /\ pc' = IF result = "Err" THEN "exited" ELSE "loop"
    /\ msg' = None
    /\ origin' = "none"
    /\ triggered' = FALSE
    /\ new_config' = None
    /\ pre' = None
    /\ sent' = << >>
    /\ requests' = << >>
    /\ result' = "none"
    /\ fails' = 0
    /\ i' = 0
    /\ half' = 0
    /\ hops' = 0
    /\ UNCHANGED << reload_topic, reload_broker, config, subs, readers, writer, running >>
    /\ UNCHANGED << queued, echo >>
    /\ UNCHANGED matchVars

\* the handler returned; an Err is logged and the select arm ends
Return ==
    /\ pc = "handled"
    /\ pc' = "loop"
    /\ msg' = None
    /\ origin' = "none"
    /\ triggered' = FALSE
    /\ new_config' = None
    /\ pre' = None
    /\ sent' = << >>
    /\ requests' = << >>
    /\ result' = "none"
    /\ fails' = 0
    /\ i' = 0
    /\ half' = 0
    /\ hops' = 0
    /\ UNCHANGED << reload_topic, reload_broker, config, subs, readers, writer, running >>
    /\ UNCHANGED << queued, echo >>
    /\ UNCHANGED matchVars

\* Ok(Event::Outgoing(_)): the event loop of `side` took a request from its channel
PollOutgoing(side) ==
    /\ pc = "loop"
    /\ queued[side] > 0
    /\ queued' = [queued EXCEPT ![side] = @ - 1]
    /\ UNCHANGED << reload_topic, reload_broker, config, subs, readers, writer, pc,
                    running, i, half, msg, origin, triggered, new_config, pre, sent,
                    requests, result, fails, hops, echo >>
    /\ UNCHANGED matchVars

\* Ok(Event::Incoming(packet)) other than a publish: ignored
PollOther(side) ==
    /\ pc = "loop"
    /\ UNCHANGED bridgeVars
    /\ UNCHANGED matchVars

\* Err(e): the error is logged and the task sleeps inside the select arm
PollError(side) ==
    /\ pc = "loop"
    /\ pc' = "sleep"
    /\ origin' = side
    /\ UNCHANGED << reload_topic, reload_broker, config, subs, readers, writer, running,
                    i, half, msg, triggered, new_config, pre, sent, requests, result,
                    fails >>
    /\ UNCHANGED << queued, hops, echo >>
    /\ UNCHANGED matchVars

\* a connection error returned from run after the pause
SleepDone_exits ==
    /\ pc = "sleep"
    /\ pc' = "exited"
    /\ origin' = "none"
    /\ UNCHANGED << reload_topic, reload_broker, config, subs, readers, writer, running,
                    i, half, msg, triggered, new_config, pre, sent, requests, result,
                    fails >>
    /\ UNCHANGED << queued, hops, echo >>
    /\ UNCHANGED matchVars

\* tokio::time::sleep(Duration::from_secs(5)) is over
SleepDone ==
    /\ pc = "sleep"
    /\ pc' = "loop"
    /\ origin' = "none"
    /\ UNCHANGED << reload_topic, reload_broker, config, subs, readers, writer, running,
                    i, half, msg, triggered, new_config, pre, sent, requests, result,
                    fails >>
    /\ UNCHANGED << queued, hops, echo >>
    /\ UNCHANGED matchVars

---------------------------------------------------------------------------
(* Specifications *)

\* Bridge::new has loaded the configuration and built both clients
InitBridge(configs) ==
    /\ reload_topic \in ReloadTopics
    /\ reload_broker \in ReloadBrokers
    /\ config \in configs
    /\ subs = [s \in Sides |-> {}]
    /\ readers = 0
    /\ writer = FALSE
    /\ pc = "start"
    /\ running = FALSE
    /\ i = 0
    /\ half = 0
    /\ msg = None
    /\ origin = "none"
    /\ triggered = FALSE
    /\ new_config = None
    /\ pre = None
    /\ sent = << >>
    /\ requests = << >>
    /\ result = "none"
    /\ fails = 0
    /\ queued = [s \in Sides |-> 0]
    /\ hops = 0
    /\ echo = None

MatchIdle ==
    /\ m_pat = << >>
    /\ m_topic = << >>
    /\ m_res = None

\* the steps of the task that take no input
Step ==
    \/ RunStart
    \/ SubscribeRule
    \/ SubscribeReloadTopic
    \/ SubscribeNoReloadTopic
    \/ EnterLoop
    \/ UnsubscribeDone
    \/ Swap
    \/ ReloadSubscribe
    \/ RouteForward
    \/ RouteSkip
    \/ RouteDone
    \/ Return
    \/ SleepDone
    \/ \E side \in Sides : PollOther(side)
    \/ \E side \in Sides : PollOutgoing(side)
    \/ \E side \in Sides : PollError(side)

\* Spec: the configuration file may hold anything when it is reloaded, and any
\* of a reload's unsubscribe calls may fail
ReloadRules == RulesUpTo(MaxReloadQosRaw)

Files == {LoadErr} \cup { LoadOk(c) : c \in ConfigsOver(ReloadRules) }

Init ==
    /\ InitBridge(ConfigsOver(ReloadRules))
    /\ MatchIdle

Next ==
    \/ Step
    \/ \E side \in Sides : \E m \in PlainMessages : PollPublish(side, m)
    \/ \E f \in Files : ReloadLoad(f)
    \/ \E ok \in BOOLEAN : Unsubscribe(ok)

Spec == Init /\ [][Next]_vars

\* SpecStable: every rule and every message body, the configuration file is not
\* edited after startup (a reload finds the same rules, or an unreadable file)
InitStable ==
    /\ InitBridge(ConfigsOver(RulesUpTo(MaxQosRaw)))
    /\ MatchIdle

NextStable ==
    \/ Step
    \/ \E side \in Sides : \E m \in Messages : PollPublish(side, m)
    \/ \E f \in {LoadErr, LoadOk(config)} : ReloadLoad(f)
    \/ \E ok \in Outcomes : Unsubscribe(ok)

SpecStable == InitStable /\ [][NextStable]_vars

\* SpecMatch: matches_topic on every pair of strings up to MaxLen
InitMatch ==
    /\ m_pat \in StringsUpTo(MaxLen)
    /\ m_topic \in StringsUpTo(MaxLen)
    /\ m_res = None
    /\ reload_topic = None
    /\ reload_broker = "near"
    /\ InitBridge({ << >> })

Match ==
    /\ m_res = None
    /\ m_res' = Some(matches_topic(m_pat, m_topic))
    /\ UNCHANGED << m_pat, m_topic >>
    /\ UNCHANGED bridgeVars

SpecMatch == InitMatch /\ [][Match]_vars

\* SpecEcho: the brokers hand the bridge's own forwards back to it, as they do for
\* every subscriber; the configuration file is not edited
InitEcho ==
    /\ InitBridge(ConfigsOver(ReloadRules))
    /\ MatchIdle

NextEcho ==
    \/ Step
    \/ \E side \in Sides : \E m \in PlainMessages : PollPublish(side, m)
    \/ \E f \in {LoadErr, LoadOk(config)} : ReloadLoad(f)
    \/ \E ok \in Outcomes : Unsubscribe(ok)
    \/ \E n \in 1..MaxRules : Echo(n)
    \/ PollEcho

SpecEcho == InitEcho /\ [][NextEcho]_vars

\* SpecStartup: run up to the loop, for configurations of many rules (one rule
\* repeated: the patterns need not differ)
StartupConfigs ==
    { [k \in 1..n |-> r] : n \in 0..MaxStartupRules, r \in ReloadRules }

InitStartup ==
    /\ reload_topic \in {None, Some(T_r)}
    /\ reload_broker = "near"
    /\ InitBridge(StartupConfigs)
    /\ MatchIdle

NextStartup ==
    \/ RunStart
    \/ SubscribeRule
    \/ SubscribeReloadTopic
    \/ SubscribeNoReloadTopic
    \/ EnterLoop

SpecStartup == InitStartup /\ [][NextStartup]_vars

---------------------------------------------------------------------------
(* Properties *)

\* the matcher of the specification, level by level on '/'-split segments
RECURSIVE ReferenceMatch(_, _)
ReferenceMatch(P, T) ==
    IF P = << << "#" >> >> THEN TRUE
    ELSE IF P = << >> THEN T = << >>
    ELSE IF T = << >> THEN FALSE
    ELSE /\ Head(P) = << "+" >> \/ Head(P) = Head(T)
         /\ ReferenceMatch(Tail(P), Tail(T))

\* C4: matches_topic(pattern, topic) is the reference matcher on the '/'-split
\* segments: a final '#' takes any rest of the topic (also none: "a/#" matches "a",
\* "#" matches every topic), '+' takes exactly one level, and without a final '#'
\* the levels correspond one to one ('#' elsewhere is compared as a literal).
MatchesReference ==
    m_res # None =>
        /\ m_res[1] = ReferenceMatch(Split(m_pat), Split(m_topic))
        /\ m_pat = << "#" >> => m_res[1]
        /\ m_pat = << "a", "/", "#" >> /\ m_topic = << "a" >> => m_res[1]
        /\ m_pat = << "+" >> => (m_res[1] <=> \A k \in 1..Len(m_topic) : m_topic[k] # "/")
        /\ m_pat = << "#", "/", "a" >> => (m_res[1] <=> m_topic = m_pat)

\* "a/#" has been matched against "a", with the result true
MatchesReferenceWitness ==
    /\ m_pat = << "a", "/", "#" >>
    /\ m_topic = << "a" >>
    /\ m_res = Some(TRUE)

\* the Direction x origin table of the specification: the side forwarded to, or "drop"
RoutingTable(direction, from) ==
    CASE direction = "NearToFar" -> IF from = "near" THEN "far" ELSE "drop"
      [] direction = "FarToNear" -> IF from = "far" THEN "near" ELSE "drop"
      [] direction = "Wherever"  -> IF from = "near" THEN "far" ELSE "near"

\* the current event is a publish that was not taken as a reload message
Routing == pc \in {"route", "handled"} /\ msg # None /\ ~triggered

\* the publish calls made for rule k of the current message
CallsOf(k) == { n \in 1..Len(sent) : sent[n].rule = k }

SpecQoS(raw) ==
    IF raw = 1 THEN "AtLeastOnce" ELSE IF raw = 2 THEN "ExactlyOnce" ELSE "AtMostOnce"

\* C2: every publish call made for a message carries the message's topic, payload
\* and retain flag, and the QoS of the rule it was made for (not the message's),
\* which is always a level: a qos field outside {0, 1, 2} gives level 0.
ForwardCarriesMessage ==
    \A n \in 1..Len(sent) :
        /\ msg # None
        /\ sent[n].call.topic = msg[1].topic
        /\ sent[n].call.payload = msg[1].payload
        /\ sent[n].call.retain = msg[1].retain
        /\ sent[n].call.qos = SpecQoS(config[sent[n].rule].qos)
        /\ sent[n].call.qos \in QoSLevels

\* a retained QoS-2 message was forwarded for a rule with qos 3: sent with level 0
ForwardCarriesMessageWitness ==
    /\ pc = "handled"
    /\ result = "Ok"
    /\ Len(sent) = 1
    /\ config[sent[1].rule].qos = 3
    /\ msg[1].qos = "ExactlyOnce"
    /\ msg[1].retain
    /\ msg[1].payload = 2
    /\ sent[1].ok
    /\ sent[1].call = [topic |-> msg[1].topic, qos |-> "AtMostOnce", retain |-> TRUE,
                       payload |-> 2]

\* the rules that match the current message and forward from its origin, in rule order
RECURSIVE ForwardingRules(_)
ForwardingRules(k) ==
    IF k = 0 THEN << >>
    ELSE IF /\ matches_topic(config[k].topic, msg[1].topic)
            /\ RoutingTable(config[k].direction, origin) # "drop"
         THEN Append(ForwardingRules(k - 1), k)
         ELSE ForwardingRules(k - 1)

\* C3 as stated: when the handler has returned, one forward was issued per matching
\* rule that forwards from the origin, in rule order.
ForwardsEqualMatches ==
    pc = "handled" /\ Routing =>
        /\ Len(sent) = Len(ForwardingRules(Len(config)))
        /\ \A n \in 1..Len(sent) : sent[n].rule = ForwardingRules(Len(config))[n]

\* C3 amended: the forwards issued are those of the matching, forwarding rules in
\* rule order, without deduplication, up to the first publish that fails: all of
\* them when the handler returns Ok; when a publish fails the handler returns Err
\* at once and the later matching rules get no forward.
ForwardsUntilFailure ==
    pc = "handled" /\ Routing =>
        LET all == ForwardingRules(Len(config))
        IN  /\ Len(sent) <= Len(all)
            /\ \A n \in 1..Len(sent) : sent[n].rule = all[n]
            /\ \A n \in 1..(Len(sent) - 1) : sent[n].ok
            /\ result = "Ok" => Len(sent) = Len(all) /\ \A n \in 1..Len(sent) : sent[n].ok
            /\ result = "Err" => Len(sent) >= 1 /\ ~sent[Len(sent)].ok

\* two overlapping rules with different QoS gave two publishes on the same side
ForwardsUntilFailureWitness ==
    /\ pc = "handled"
    /\ Routing
    /\ result = "Ok"
    /\ Len(sent) = 2
    /\ config[1].topic = config[2].topic
    /\ sent[1].side = sent[2].side
    /\ sent[1].call.qos # sent[2].call.qos

\* C5: a publish is taken as a reload message exactly when a reload topic is
\* configured, the publish's topic is that very string and it came from the side
\* reload_broker names.  A reload message is never forwarded, whatever rules match
\* it; any other publish, the reload topic arriving on the other side included,
\* is routed and starts no reload.
ReloadTriggerExact ==
    msg # None =>
        /\ triggered <=> /\ reload_topic # None
                         /\ msg[1].topic = reload_topic[1]
                         /\ origin = reload_broker
        /\ triggered => sent = << >> /\ pc \notin {"route"}
        /\ ~triggered => /\ pc \in {"route", "handled"}
                         /\ requests = << >>
                         /\ new_config = None
                         /\ config = pre[1].config
                         /\ subs = pre[1].subs

\* a reload message that a Wherever rule matches was handled: reloaded, not forwarded
ReloadTriggerExactWitness ==
    /\ pc = "handled"
    /\ triggered
    /\ result = "Ok"
    /\ sent = << >>
    /\ \E k \in 1..Len(config) :
         /\ config[k].direction = "Wherever"
         /\ matches_topic(config[k].topic, msg[1].topic)

\* the reload topic arrived on the side that is not reload_broker and was forwarded
ReloadTopicOtherSideRouted ==
    /\ pc = "handled"
    /\ ~triggered
    /\ reload_topic # None
    /\ reload_broker \in Sides
    /\ msg # None
    /\ msg[1].topic = reload_topic[1]
    /\ origin # reload_broker
    /\ Len(sent) = 1

\* C6: a reload whose load fails returns Err in that very step: no unsubscribe or
\* subscribe call has been made, the configuration and the subscriptions of both
\* sides are those of the moment the message was polled, and the handler's return
\* leads back to the loop.
LoadFailureAborts ==
    /\ [][ pc = "reload" /\ ReloadLoad(LoadErr) =>
             /\ pc' = "handled"
             /\ result' = "Err"
             /\ requests' = << >>
             /\ new_config' = None
             /\ config' = pre[1].config
             /\ subs' = pre[1].subs
             /\ readers' = 0 /\ ~writer' ]_vars
    /\ [][ pc = "handled" => pc' = "loop" /\ config' = config /\ subs' = subs ]_vars
    /\ [](pc = "handled" => ENABLED Return)

\* a reload failed to load its file while a rule was active and subscribed
LoadFailureAbortsWitness ==
    /\ pc = "handled"
    /\ triggered
    /\ result = "Err"
    /\ new_config = None
    /\ requests = << >>
    /\ Len(config) >= 1
    /\ config = pre[1].config
    /\ subs = pre[1].subs
    /\ subs["near"] # {} /\ subs["far"] # {}

\* the sides the specification subscribes a rule on
SidesOf(direction) ==
    CASE direction = "NearToFar" -> {"near"}
      [] direction = "FarToNear" -> {"far"}
      [] direction = "Wherever"  -> {"near", "far"}

\* the subscriptions of `side` the specification derives from the first k rules of
\* cfg (a later subscription of a pattern replaces an earlier one)
RECURSIVE RuleSubs(_, _, _)
RuleSubs(cfg, side, k) ==
    IF k = 0 THEN {}
    ELSE IF side \in SidesOf(cfg[k].direction)
         THEN Subscribed(RuleSubs(cfg, side, k - 1), cfg[k].topic, SpecQoS(cfg[k].qos))
         ELSE RuleSubs(cfg, side, k - 1)

\* ... and from the reload topic, subscribed last with QoS 1 on the reload side
ExpectedSubs(cfg, side) ==
    IF reload_topic # None /\ reload_broker = side
    THEN Subscribed(RuleSubs(cfg, side, Len(cfg)), reload_topic[1], "AtLeastOnce")
    ELSE RuleSubs(cfg, side, Len(cfg))

\* the reload topic is subscribed on the reload side
ReloadTopicSubscribed ==
    /\ reload_topic # None
    /\ reload_broker \in Sides
    /\ \E e \in subs[reload_broker] : e[1] = reload_topic[1]

\* the current handler reloaded a configuration equal to the active one
IdenticalReload ==
    /\ pc = "handled"
    /\ triggered
    /\ new_config = Some(pre[1].config)

\* C7 as stated: every reload of a configuration identical to the active one leaves
\* the subscriptions of both sides as they were, the reload topic subscribed.
IdenticalReloadKeepsSubs ==
    IdenticalReload => subs = pre[1].subs /\ ReloadTopicSubscribed

\* C7 amended: a reload that returns Ok, of a configuration identical to the active
\* one, started with the subscriptions of the active configuration in place (as
\* after startup or a reload that returned Ok), leaves the subscriptions of each
\* side exactly as they were, the reload topic subscribed with QoS 1.
IdenticalReloadOkKeepsSubs ==
    ( /\ IdenticalReload
      /\ result = "Ok"
      /\ \A side \in Sides : ExpectedSubs(pre[1].config, side) \subseteq pre[1].subs[side] )
    => /\ subs = pre[1].subs
       /\ config = pre[1].config
       /\ ReloadTopicSubscribed
       /\ << reload_topic[1], "AtLeastOnce" >> \in subs[reload_broker]

\* an identical reload returned Ok with two rules sharing the reload topic as their
\* pattern, with different QoS, unsubscribed and subscribed again on the reload side
IdenticalReloadOkKeepsSubsWitness ==
    /\ IdenticalReload
    /\ result = "Ok"
    /\ \A side \in Sides : ExpectedSubs(pre[1].config, side) \subseteq pre[1].subs[side]
    /\ Len(config) = 2
    /\ config[1].topic = reload_topic[1]
    /\ config[2].topic = reload_topic[1]
    /\ config[1].qos = 1 /\ config[2].qos = 2
    /\ reload_broker \in SidesOf(config[1].direction) \cap SidesOf(config[2].direction)
    /\ \E n \in 1..Len(requests) :
         requests[n] = << "unsubscribe", reload_broker, reload_topic[1], "none", TRUE >>
    /\ subs = pre[1].subs

\* C8: whenever reload_config has returned Ok, whatever the old and the new rules,
\* the reload topic is subscribed on the reload side and a publish of it from that
\* side is again taken as a reload message.
ReloadKeepsTrigger ==
    pc = "handled" /\ triggered /\ result = "Ok" =>
        /\ ReloadTopicSubscribed
        /\ Delivered(reload_broker, reload_topic[1])
        /\ is_reload_message(reload_broker, reload_topic[1])

\* a reload returned Ok after a rule of the old configuration with the reload topic
\* as its pattern was unsubscribed on the reload side; the new rules do not name it
ReloadKeepsTriggerWitness ==
    /\ pc = "handled"
    /\ triggered
    /\ result = "Ok"
    /\ \E k \in 1..Len(pre[1].config) : pre[1].config[k].topic = reload_topic[1]
    /\ \A k \in 1..Len(config) : config[k].topic # reload_topic[1]
    /\ \E n \in 1..Len(requests) :
         requests[n] = << "unsubscribe", reload_broker, reload_topic[1], "none", TRUE >>
    /\ ReloadTopicSubscribed

\* C9: the configuration changes only in the swap step, as one value (the loaded
\* one), with the write guard held and no read guard; while a message is routed
\* the rules are those of the moment it was polled and a read guard is held; the
\* write guard is held in no state in which a subscribe, unsubscribe or publish
\* call is made.
SnapshotAndShortWrite ==
    /\ [][ config' # config =>
             /\ pc = "swap"
             /\ readers = 0
             /\ writer'
             /\ config' = new_config[1] ]_vars
    /\ [](pc = "route" => config = pre[1].config /\ readers > 0)
    /\ [](writer => pc = "swapped" /\ readers = 0)
    /\ [](pc \in {"subscribe", "unsubscribe", "route"} => ~writer)
    /\ [][ requests' # requests \/ sent' # sent => ~writer /\ ~writer' ]_vars

\* the write guard is held right after the swap to a different configuration
SnapshotAndShortWriteWitness ==
    /\ pc = "swapped"
    /\ writer
    /\ readers = 0
    /\ config = new_config[1]
    /\ config # pre[1].config
    /\ Len(requests) >= 1

\* C10: a startup in which a subscribe failed ends the process: the loop is never
\* entered (no event is polled, nothing is forwarded); the loop is entered only
\* from a startup all of whose subscribe calls returned Ok.
StartupFailureIsFatal ==
    /\ ~running /\ fails > 0 => pc = "exited"
    /\ pc = "exited" => /\ ~running
                        /\ result = "Err"
                        /\ msg = None
                        /\ sent = << >>
                        /\ ~ENABLED Next
    /\ pc = "started" => /\ fails = 0
                         /\ \A n \in 1..Len(requests) : requests[n][5]
                         /\ \A side \in Sides : subs[side] = ExpectedSubs(config, side)
    /\ running => pc \notin {"start", "started", "exited"}
    /\ msg # None \/ pc \in {"loop", "sleep", "route", "reload", "handled"} => running

\* the process ended with one startup subscription made and the next one failed
StartupFailureIsFatalWitness ==
    /\ pc = "exited"
    /\ Len(requests) = 2
    /\ requests[1][5]
    /\ ~requests[2][5]
    /\ subs["near"] # {}
    /\ subs["far"] = {}

\* the subscriptions of `side` once the first k calls of reqs have acted on `set`
\* (only a call that returned Ok acts)
RECURSIVE AfterRequests(_, _, _, _)
AfterRequests(set, side, reqs, k) ==
    IF k = 0 THEN set
    ELSE LET r == reqs[k]
             before == AfterRequests(set, side, reqs, k - 1)
         IN  IF r[2] # side \/ ~r[5] THEN before
             ELSE IF r[1] = "subscribe" THEN Subscribed(before, r[3], r[4])
             ELSE Unsubscribed(before, r[3])

\* the subscribe calls the specification derives from the first k rules of cfg, in
\* order, as << side, pattern, QoS >>
RECURSIVE RulePlan(_, _)
RulePlan(cfg, k) ==
    IF k = 0 THEN << >>
    ELSE RulePlan(cfg, k - 1) \o
         ( CASE cfg[k].direction = "NearToFar" ->
                    << << "near", cfg[k].topic, SpecQoS(cfg[k].qos) >> >>
             [] cfg[k].direction = "FarToNear" ->
                    << << "far", cfg[k].topic, SpecQoS(cfg[k].qos) >> >>
             [] cfg[k].direction = "Wherever" ->
                    << << "near", cfg[k].topic, SpecQoS(cfg[k].qos) >>,
                       << "far", cfg[k].topic, SpecQoS(cfg[k].qos) >> >> )

\* ... followed by the reload-control subscription, issued last
SubscribePlan(cfg) ==
    RulePlan(cfg, Len(cfg)) \o
    ( IF reload_topic # None /\ reload_broker \in Sides
      THEN << << reload_broker, reload_topic[1], "AtLeastOnce" >> >>
      ELSE << >> )

\* the positions of the calls `op` in the current handler's requests
CallsNamed(op) == { n \in 1..Len(requests) : requests[n][1] = op }

\* the current handler is a reload in which a subscribe call returned Err
ReloadSubscribeFailed ==
    /\ pc = "handled"
    /\ triggered
    /\ \E n \in CallsNamed("subscribe") : ~requests[n][5]

\* C11: a reload in which a subscribe fails returns Err with the swap done: the
\* active configuration is the loaded one; the failed call is the last call made
\* (no retry, nothing after it: the subscribe calls made are a proper start of
\* those the new configuration asks for, so the reload-control subscription, last
\* of them, was not made after the failure); the subscriptions are those at the
\* poll with the calls that returned Ok applied (nothing rolled back); no guard is
\* held, and the return leads back to the loop with that configuration and those
\* subscriptions.
SubscribeFailureAfterSwap ==
    /\ [](ReloadSubscribeFailed =>
            LET made == CallsNamed("subscribe")
                plan == SubscribePlan(new_config[1])
                first == Len(requests) - Cardinality(made)
            IN  /\ result = "Err"
                /\ new_config # None
                /\ config = new_config[1]
                /\ ~requests[Len(requests)][5]
                /\ \A n \in made : n > first /\ (requests[n][5] <=> n < Len(requests))
                /\ Cardinality(made) <= Len(plan)
                /\ \A n \in made : << requests[n][2], requests[n][3], requests[n][4] >>
                                       = plan[n - first]
                /\ \A side \in Sides :
                     subs[side] = AfterRequests(pre[1].subs[side], side, requests,
                                                Len(requests))
                /\ readers = 0 /\ ~writer
                /\ ENABLED Return)
    /\ [][ ReloadSubscribeFailed =>
             /\ pc' = "loop"
             /\ running'
             /\ config' = new_config[1]
             /\ subs' = subs ]_vars

\* a reload to other rules made one subscription of the new configuration, the
\* next subscribe failed and the reload-control subscription was not made again
SubscribeFailureAfterSwapWitness ==
    /\ ReloadSubscribeFailed
    /\ result = "Err"
    /\ config = new_config[1]
    /\ config # pre[1].config
    /\ Cardinality(CallsNamed("subscribe")) = 2
    /\ Len(SubscribePlan(config)) = 3
    /\ reload_topic # None
    /\ reload_broker \in Sides
    /\ \E n \in CallsNamed("unsubscribe") :
         /\ requests[n][2] = reload_broker
         /\ requests[n][3] = reload_topic[1]
         /\ requests[n][5]
    /\ ~ReloadTopicSubscribed

\* the unsubscribe calls the specification derives from the first k rules of cfg,
\* in order, as << side, pattern >>
RECURSIVE UnsubscribePlan(_, _)
UnsubscribePlan(cfg, k) ==
    IF k = 0 THEN << >>
    ELSE UnsubscribePlan(cfg, k - 1) \o
         ( CASE cfg[k].direction = "NearToFar" -> << << "near", cfg[k].topic >> >>
             [] cfg[k].direction = "FarToNear" -> << << "far", cfg[k].topic >> >>
             [] cfg[k].direction = "Wherever" ->
                    << << "near", cfg[k].topic >>, << "far", cfg[k].topic >> >> )

\* the first k requests of the current handler are the first k unsubscribe calls
\* of the configuration active at the poll, whatever each of them returned
UnsubscribesAttempted(k) ==
    LET plan == UnsubscribePlan(pre[1].config, Len(pre[1].config))
    IN  /\ k <= Len(plan)
        /\ k <= Len(requests)
        /\ \A n \in 1..k : /\ requests[n][1] = "unsubscribe"
                            /\ << requests[n][2], requests[n][3] >> = plan[n]

\* the current reload is past its unsubscribe loop
PastUnsubscribes ==
    /\ triggered
    /\ new_config # None
    /\ pc \in {"swap", "swapped", "subscribe", "handled"}

\* C12: whichever unsubscribe calls of a reload fail, the loop over the old rules
\* goes on: a failed call leaves the reload in its unsubscribe loop with no Err
\* returned, and once the loop is left every unsubscribe of the old configuration
\* has been attempted, in order; the swap and the subscribe phase follow (the write
\* guard is free for the swap), the new configuration is active from the swap on,
\* and a reload that returns Ok has issued every subscribe call of the new
\* configuration.
UnsubscribeFailureGoesOn ==
    /\ [][ pc = "unsubscribe" /\ requests' # requests =>
             /\ pc' = "unsubscribe"
             /\ result' = result
             /\ UnsubscribesAttempted(Len(requests))'
             /\ Len(requests') = Len(requests) + 1 ]_vars
    /\ [](pc = "unsubscribe" =>
            /\ UnsubscribesAttempted(Len(requests))
            /\ ENABLED (UnsubscribeDone \/ \E ok \in BOOLEAN : Unsubscribe(ok)))
    /\ [](PastUnsubscribes =>
            LET plan == UnsubscribePlan(pre[1].config, Len(pre[1].config))
                made == CallsNamed("subscribe")
            IN  /\ UnsubscribesAttempted(Len(plan))
                /\ Cardinality(CallsNamed("unsubscribe")) = Len(plan)
                /\ pc = "swap" => ENABLED Swap
                /\ pc = "swapped" => ENABLED ReloadSubscribe
                /\ pc \in {"swapped", "subscribe", "handled"} => config = new_config[1]
                /\ pc = "handled" /\ result = "Ok" =>
                      /\ Cardinality(made) = Len(SubscribePlan(config))
                      /\ \A n \in made :
                           << requests[n][2], requests[n][3], requests[n][4] >>
                             = SubscribePlan(config)[n - Len(plan)]
                      /\ \A n \in made : requests[n][5])

\* a reload away from two Wherever rules returned Ok although all four
\* unsubscribe calls had failed: the new rule is subscribed, the old stay subscribed
UnsubscribeFailureGoesOnWitness ==
    /\ pc = "handled"
    /\ triggered
    /\ result = "Ok"
    /\ Cardinality(CallsNamed("unsubscribe")) = 4
    /\ \A n \in CallsNamed("unsubscribe") : ~requests[n][5]
    /\ config = new_config[1]
    /\ Len(config) = 1
    /\ config # pre[1].config
    /\ \E n \in CallsNamed("subscribe") : requests[n][3] = config[1].topic
    /\ pre[1].config[1].topic # pre[1].config[2].topic
    /\ \A side \in Sides : pre[1].subs[side] \subseteq subs[side]

\* the current handler routed a message and one of its publish calls returned Err
ForwardFailed ==
    /\ pc = "handled"
    /\ Routing
    /\ result = "Err"

\* the task is between two events and holds nothing of an earlier one
LoopIdle ==
    /\ running
    /\ msg = None /\ hops = 0 /\ origin = "none" /\ triggered = FALSE
    /\ new_config = None /\ pre = None
    /\ sent = << >> /\ requests = << >> /\ result = "none" /\ fails = 0
    /\ i = 0 /\ half = 0
    /\ readers = 0 /\ ~writer

\* C13: a forward that fails ends the handling of that one message only: the
\* handler returns with the configuration and the subscriptions of the poll and no
\* guard held, the loop is resumed (run does not return), and in the loop the task
\* holds nothing of the messages handled before, failed or not, so that what a later
\* publish meets depends on the configuration and the subscriptions alone; there,
\* every publish a broker delivers, on either side, is taken and handled.
ForwardFailureIsolated ==
    /\ [](ForwardFailed =>
            /\ config = pre[1].config
            /\ subs = pre[1].subs
            /\ readers = 0 /\ ~writer
            /\ ENABLED Return)
    /\ [][ ForwardFailed =>
             /\ pc' = "loop"
             /\ LoopIdle'
             /\ config' = pre[1].config
             /\ subs' = pre[1].subs ]_vars
    /\ [](pc = "loop" => LoopIdle)
    /\ [](pc = "loop" /\ Drained =>
            \A side \in Sides : \A m \in Messages :
                Delivered(side, m.topic) => ENABLED PollPublish(side, m))

\* the second of two forwards of a message failed after the first was made
ForwardFailureIsolatedWitness ==
    /\ ForwardFailed
    /\ Len(sent) = 2
    /\ sent[1].ok
    /\ ~sent[2].ok
    /\ queued[sent[1].side] = 1
    /\ config = pre[1].config
    /\ subs = pre[1].subs

\* C14 as stated: while the task is in the pause that follows a connection error of
\* one side, a publish the broker of the other side delivers is polled and handled.
BackoffLeavesOtherSide ==
    pc = "sleep" =>
        \A side \in Sides \ {origin} : \A m \in PlainMessages :
            Drained /\ Delivered(side, m.topic) => ENABLED PollPublish(side, m)

\* what the code does: the pause is taken inside the select arm, and until it is
\* over neither event loop is polled
BackoffStallsBothSides ==
    pc = "sleep" =>
        /\ origin \in Sides
        /\ \A side \in Sides :
             /\ ~ENABLED PollOther(side)
             /\ ~ENABLED PollOutgoing(side)
             /\ ~ENABLED PollError(side)
             /\ \A m \in PlainMessages : ~ENABLED PollPublish(side, m)
        /\ ENABLED SleepDone

\* the task pauses after an error of near while far has a subscription to deliver for
BackoffStallsBothSidesWitness ==
    /\ pc = "sleep"
    /\ origin = "near"
    /\ Drained
    /\ Delivered("far", T_a)

\* C15: once "Bridge is running" is passed, run never returns: the task is never
\* again before the loop nor at an exit; what ends an event (the pause after a
\* connection error of either side, the return of a handler with Ok or Err, a
\* reload among them, a packet that is no publish, an outgoing event) leads to the
\* head of the loop, where the event loops of both sides are polled again.
LoopNeverExits ==
    /\ [][ running => running' ]_vars
    /\ [](running => pc \notin {"start", "started", "exited"})
    /\ [][ (pc = "sleep" \/ pc = "handled") => pc' = "loop" ]_vars
    /\ [][ pc = "loop" => pc' \in {"loop", "sleep", "route", "reload"} ]_vars
    /\ [](pc = "sleep" => ENABLED SleepDone)
    /\ [](pc = "handled" => running /\ ENABLED Return)
    /\ [](pc = "loop" =>
            \A side \in Sides :
                /\ ENABLED PollOther(side)
                /\ ENABLED PollError(side)
                /\ queued[side] > 0 => ENABLED PollOutgoing(side)
                /\ \A m \in PlainMessages :
                     Drained /\ Delivered(side, m.topic) => ENABLED PollPublish(side, m))

\* the loop is at its head again after a reload that failed at a subscribe call:
\* the subscriptions are not those of the active configuration
LoopNeverExitsWitness ==
    /\ pc = "loop"
    /\ LoopIdle
    /\ Len(config) = 2
    /\ \E side \in Sides : ExpectedSubs(config, side) \ subs[side] # {}
    /\ Drained

\* the positions of the task inside a publish handler
InHandler == pc \in {"route", "reload", "unsubscribe", "swap", "swapped", "handled"}
                 \/ (pc = "subscribe" /\ running)

\* C16: a publish is taken from an event loop only at the head of the loop, when
\* the handling of the one before is over (all its forwards made, or the reload it
\* started returned) and nothing of it is held; until the handler returns no other
\* publish of either side is taken; the forwards of a message are made one after
\* the other, each handed to the destination client when it is made, so the
\* forwards of an earlier message are queued there before those of a later one.
\* Between the two sides there is no order: at the head of the loop a publish of
\* near and one of far can both be taken next.
InArrivalOrder ==
    /\ [][ msg' # msg /\ msg' # None => pc = "loop" /\ LoopIdle /\ pc' # "loop" ]_vars
    /\ [](InHandler <=> msg # None)
    /\ [](pc # "loop" =>
            \A side \in Sides : \A m \in Messages : ~ENABLED PollPublish(side, m))
    /\ [][ sent' # sent =>
             \/ pc = "handled" /\ sent' = << >> /\ msg' = None
             \/ /\ pc = "route"
                /\ msg' = msg
                /\ Len(sent') = Len(sent) + 1
                /\ SubSeq(sent', 1, Len(sent)) = sent
                /\ sent'[Len(sent')].call.topic = msg[1].topic
                /\ sent'[Len(sent')].side = destination(origin)
                /\ \A n \in 1..Len(sent) : sent[n].rule < sent'[Len(sent')].rule
                /\ queued'[destination(origin)] =
                     queued[destination(origin)] + (IF sent'[Len(sent')].ok THEN 1 ELSE 0) ]_vars
    /\ [](pc = "loop" /\ Drained =>
            \A m1 \in Messages : \A m2 \in Messages :
                Delivered("near", m1.topic) /\ Delivered("far", m2.topic) =>
                    ENABLED PollPublish("near", m1) /\ ENABLED PollPublish("far", m2))

\* a message of near is half-way through its two forwards, the first queued at the
\* far client, while far has a subscription a publish could be delivered for
InArrivalOrderWitness ==
    /\ pc = "route"
    /\ origin = "near"
    /\ Len(config) = 2
    /\ i = 2
    /\ Len(sent) = 1
    /\ sent[1].ok
    /\ queued["far"] = 1
    /\ Delivered("far", T_a)
    /\ matches_topic(config[2].topic, msg[1].topic)
    /\ forwards(origin, config[2].direction)

\* the current handler is a reload that returned Ok and all of whose unsubscribe
\* calls returned Ok
CleanReload ==
    /\ pc = "handled"
    /\ triggered
    /\ result = "Ok"
    /\ \A n \in CallsNamed("unsubscribe") : requests[n][5]

\* each side's subscriptions are exactly those derived from the active configuration
SubsDerived == \A side \in Sides : subs[side] = ExpectedSubs(config, side)

\* C17 as stated: after a startup that succeeded, and after every reload that
\* returned Ok with all its unsubscribe calls Ok, the subscriptions of each side are
\* exactly those derived from the active configuration.
SubsAlwaysDerived ==
    /\ pc = "started" => SubsDerived
    /\ CleanReload => SubsDerived

\* C17 amended: after a startup that succeeded, and after a reload that returned Ok
\* with all its unsubscribe calls Ok and that began with nothing subscribed beyond
\* what the then active configuration derives, the subscriptions of each side are
\* exactly those derived from the active configuration: every rule's pattern on the
\* side(s) of its direction, the reload topic on the reload side with QoS 1 even
\* when a rule subscribes the same pattern there, and nothing else.
SubsDerivedFromCleanStart ==
    /\ pc = "started" => SubsDerived
    /\ ( /\ CleanReload
         /\ \A side \in Sides : pre[1].subs[side] \subseteq ExpectedSubs(pre[1].config, side) )
       => /\ SubsDerived
          /\ \A side \in Sides : \A k \in 1..Len(config) :
               side \in SidesOf(config[k].direction) =>
                   \E e \in subs[side] : e[1] = config[k].topic
          /\ reload_topic # None /\ reload_broker \in Sides =>
               /\ << reload_topic[1], "AtLeastOnce" >> \in subs[reload_broker]
               /\ \A e \in subs[reload_broker] :
                    e[1] = reload_topic[1] => e[2] = "AtLeastOnce"
          /\ \A side \in Sides : \A e \in subs[side] :
               \/ \E k \in 1..Len(config) : /\ e[1] = config[k].topic
                                              /\ side \in SidesOf(config[k].direction)
               \/ /\ reload_topic # None
                  /\ reload_broker = side
                  /\ e[1] = reload_topic[1]

\* a reload from other rules returned Ok, every unsubscribe Ok; a new rule has the
\* reload topic as its pattern on the reload side with QoS 0, and the subscription
\* of that pattern is the reload-control one, with QoS 1
SubsDerivedFromCleanStartWitness ==
    /\ CleanReload
    /\ \A side \in Sides : pre[1].subs[side] \subseteq ExpectedSubs(pre[1].config, side)
    /\ config # pre[1].config
    /\ Len(pre[1].config) = 2
    /\ Len(config) = 2
    /\ \E k \in 1..Len(config) :
         /\ config[k].topic = reload_topic[1]
         /\ reload_broker \in SidesOf(config[k].direction)
         /\ rule_qos(config[k]) = "AtMostOnce"
    /\ << reload_topic[1], "AtLeastOnce" >> \in subs[reload_broker]
    /\ SubsDerived

\* C18: the task never asks for the configuration lock while it holds a guard that
\* excludes the request: reload_config is entered with no guard held (the handler
\* dropped its read guard), the unsubscribe phase holds one read guard and drops
\* it before the write guard is asked for, the write guard is gone when
\* subscribe_to_topics takes its read guard; a read guard is only ever taken with
\* no write guard left, the write guard only with no guard held, and each of
\* these steps is enabled when the task is at it.
ReloadNeverSelfBlocks ==
    /\ [](pc = "reload" => readers = 0 /\ ~writer /\ ENABLED ReloadLoad(LoadOk(config)))
    /\ [](pc = "unsubscribe" => readers = 1 /\ ~writer)
    /\ [](pc = "swap" => readers = 0 /\ ~writer /\ CanWrite /\ ENABLED Swap)
    /\ [](pc = "swapped" => readers = 0 /\ writer /\ ENABLED ReloadSubscribe)
    /\ [](pc \in {"subscribe", "route"} => readers = 1 /\ ~writer)
    /\ [](pc \in {"start", "loop", "handled"} => readers = 0 /\ ~writer /\ CanRead)
    /\ [][ readers' > readers => readers = 0 /\ ~writer' ]_vars
    /\ [][ writer' /\ ~writer => readers = 0 /\ readers' = 0 ]_vars

\* a reload has dropped the read guard of its unsubscribe phase, four calls made,
\* and is about to ask for the write guard
ReloadNeverSelfBlocksWitness ==
    /\ pc = "swap"
    /\ triggered
    /\ Len(requests) = 4
    /\ readers = 0
    /\ ~writer
    /\ new_config # None
    /\ new_config[1] # config

\* the client the task hands its next request to, if the statement it is at is a
\* client call
NextCallSide ==
    CASE pc = "subscribe" /\ i <= Len(config) ->
             Some(subscribe_sides(config[i].direction)[half + 1])
      [] pc = "subscribe" /\ i > Len(config)
             /\ subscribes_reload_topic /\ reload_broker \in Sides ->
             Some(reload_broker)
      [] pc = "unsubscribe" /\ i <= Len(config) ->
             Some(unsubscribe_sides(config[i].direction)[half + 1])
      [] pc = "route" /\ i <= Len(config)
             /\ matches_topic(config[i].topic, msg[1].topic)
             /\ forwards(origin, config[i].direction) ->
             Some(destination(origin))
      [] OTHER -> None

\* C19 as stated: whenever the task is at a subscribe, unsubscribe or publish call,
\* at startup or inside a handler, the request channel of that client has room, so
\* the call hands its request over and returns, whatever the number of rules.
NeverPendingOnFullQueue ==
    NextCallSide # None => CanSend(NextCallSide[1])

\* startup is at the subscribe call of rule 101 with 100 requests queued at the
\* near client, whose event loop is first polled after startup
StartupPendingOnFullQueue ==
    /\ pc = "subscribe"
    /\ ~running
    /\ i = RequestCap + 1
    /\ Len(config) > RequestCap
    /\ NextCallSide = Some("near")
    /\ queued["near"] = RequestCap
    /\ fails = 0

\* C20 as stated: a publish that comes back to the bridge after the bridge itself
\* forwarded it is not forwarded again, so that one publish of another client
\* causes no more forwards than the rules matching it once.
NoPingPong ==
    msg # None /\ hops >= 1 => sent = << >>

\* what the code does: a forward handed back by the destination's broker is handled
\* as any publish of that side, and under a Wherever rule forwarded to the side it
\* came from, with one crossing more each time
PingPongGoesOn ==
    /\ pc = "handled" /\ Routing /\ result = "Ok" =>
          Len(sent) = Len(ForwardingRules(Len(config)))
    /\ echo # None => /\ echo[1].hops \in 1..MaxHops
                      /\ echo[1].side \in Sides
    /\ pc = "loop" /\ echo # None /\ Drained /\ Delivered(echo[1].side, echo[1].m.topic)
          => ENABLED PollEcho

\* one publish of another client on near, under a single Wherever rule, is on its
\* second way back: forwarded to far, handed back there, forwarded to near, handed
\* back there and forwarded to far again
PingPongWitness ==
    /\ pc = "handled"
    /\ Len(config) = 1
    /\ config[1].direction = "Wherever"
    /\ hops = 2
    /\ origin = "near"
    /\ Len(sent) = 1
    /\ sent[1].ok
    /\ sent[1].side = "far"
    /\ Delivered("far", sent[1].call.topic)


===========================================================================
